---------------------------- MODULE Spec2Model ----------------------------
(* meet-speaking-time: the per-participant speaking-time tracker            *)
(* (Participant.ts), the meeting controller's roster and strike reset       *)
(* (MeetingController), and the closed-caption reconciliation engine        *)
(* (ClosedCaptions, ClosedCaptionEvent, mergeStrings).                      *)
(*                                                                          *)
(* Time is the value of new Date().getTime(), in milliseconds.  Every       *)
(* handler runs to completion and reads the clock once; the clock advances  *)
(* between handlers (Tick).                                                 *)
EXTENDS Integers, Sequences, FiniteSets, TLC

VARIABLES
    now,            \* new Date().getTime()
    participants,   \* MeetingController.participants: sequence of Participant
    lastSignal,     \* per participant: the last mic signal delivered ("none", "true", "false")
    lastCall,       \* the tracker handler that ran last, its arguments and the state it found
    runs,           \* per identifier: when the mic signals' open run began, and the sum of the completed runs
    events,         \* ClosedCaptions.events: the finalized turns
    eventsBuffer,   \* ClosedCaptions.eventsBuffer: the turns still on screen
    nextId,         \* identity of the next ClosedCaptionEvent kept by the engine
    snapshot,       \* the caption lines the last mergeLatestCC read from the panel
    ccOutcome,      \* how the last mergeLatestCC ended: "none", "completed", "threw"
    ccRounds,       \* the number of mergeLatestCC calls so far
    fnCall,         \* the last call of a pure function: its name, arguments and result
    boxes,          \* per identifier: the participant box in the window, if any
    microphoneObserver  \* per participant: Participant.microphoneObserver

trackerVars == <<participants, lastSignal, lastCall, runs>>
ccVars == <<events, eventsBuffer, nextId, snapshot, ccOutcome, ccRounds>>
rosterVars == <<boxes, microphoneObserver>>
vars == <<now, participants, lastSignal, lastCall, runs,
          events, eventsBuffer, nextId, snapshot, ccOutcome, ccRounds, fnCall,
          boxes, microphoneObserver>>

-----------------------------------------------------------------------------
(* Bounds of the model.                                                     *)

\* The clock value the model starts from.
StartTime == 10000

\* The tracker's clock takes the values
\* StartTime + a + RECENCY_THRESHOLD_MS * b,
\* a \in 0..MaxSmallSteps, b \in 0..MaxLargeSteps.
MaxSmallSteps == 2
MaxLargeSteps == 1

\* Calls of mergeLatestCC in one run of the model.
MaxRounds == 3

\* Turns finalized by _addEvent in one run of the model.
MaxTurns == 4

\* formatTime is called on durations of up to MaxHours hours.
MaxHours == 2

-----------------------------------------------------------------------------
(* JavaScript values.                                                       *)

\* null (a number field that holds no timestamp)
Null == -1

\* !x for a number-or-null x: null and 0 are falsy
Falsy(x) == x = Null \/ x = 0

-----------------------------------------------------------------------------
(* Participant                                                              *)

RECENCY_THRESHOLD_MS == 2000

Instants ==
    { StartTime + a + RECENCY_THRESHOLD_MS * b :
        a \in 0..MaxSmallSteps, b \in 0..MaxLargeSteps }

\* new Participant(initialId): field initialisers
NewParticipant(id) ==
    [ initialId           |-> id,
      speakingStrikeStart |-> Null,
      lastSpeakingEnd     |-> Null,
      speakingStrikeTime  |-> 0,
      totalSpeakingTime   |-> 0 ]

\* getLiveSpeakingTime(), read at clock value t
getLiveSpeakingTime(p, t) ==
    IF Falsy(p.speakingStrikeStart) THEN 0 ELSE t - p.speakingStrikeStart

\* getSpeakingStrikeTime()
getSpeakingStrikeTime(p, t) == p.speakingStrikeTime + getLiveSpeakingTime(p, t)

\* getTotalSpeakingTime()
getTotalSpeakingTime(p, t) == p.totalSpeakingTime + getLiveSpeakingTime(p, t)

\* spokeRecently with the comparison turned round (the last utterance ended
\* within the threshold of the reference time).
spokeRecently_Within(p, referenceTime, t) ==
    LET ref == IF Falsy(referenceTime) THEN t ELSE referenceTime
    IN  /\ p.lastSpeakingEnd # Null
        /\ p.lastSpeakingEnd >= ref - RECENCY_THRESHOLD_MS

\* spokeRecently(referenceTime), called at clock value t
spokeRecently(p, referenceTime, t) ==
    LET ref == IF Falsy(referenceTime) THEN t ELSE referenceTime
    IN  /\ p.lastSpeakingEnd # Null
        /\ p.lastSpeakingEnd < ref - RECENCY_THRESHOLD_MS

\* speaking() without its test of speakingStrikeStart: every true signal
\* restarts the run.
speaking_Restart(p, t) == [p EXCEPT !.speakingStrikeStart = t]

\* speaking(), the participant after the call at clock value t
speaking(p, t) ==
    IF Falsy(p.speakingStrikeStart)
    THEN [p EXCEPT !.speakingStrikeStart = t]
    ELSE p

\* incrementSpeakingTime that adds the run to the total only.
incrementSpeakingTime_TotalOnly(p, value) ==
    [p EXCEPT !.speakingStrikeStart = Null,
              !.totalSpeakingTime   = p.totalSpeakingTime + value]

\* incrementSpeakingTime(value)
incrementSpeakingTime(p, value) ==
    [p EXCEPT !.speakingStrikeStart = Null,
              !.totalSpeakingTime   = p.totalSpeakingTime + value,
              !.speakingStrikeTime  = p.speakingStrikeTime + value]

\* pauseSpeaking that closes the run without adding it to the totals.
pauseSpeaking_NoCommit(p, t) ==
    [p EXCEPT !.lastSpeakingEnd = t, !.speakingStrikeStart = Null]

\* pauseSpeaking()
pauseSpeaking(p, t) ==
    LET q == [p EXCEPT !.lastSpeakingEnd = t]
    IN  IF ~Falsy(q.speakingStrikeStart)
        THEN incrementSpeakingTime(q, t - q.speakingStrikeStart)
        ELSE q

\* stopSpeaking that zeroes the lifetime total with the strike.
stopSpeaking_ZeroTotal(p) ==
    [p EXCEPT !.lastSpeakingEnd     = Null,
              !.speakingStrikeStart = Null,
              !.speakingStrikeTime  = 0,
              !.totalSpeakingTime   = 0]

\* stopSpeaking()
stopSpeaking(p) ==
    [p EXCEPT !.lastSpeakingEnd     = Null,
              !.speakingStrikeStart = Null,
              !.speakingStrikeTime  = 0]

-----------------------------------------------------------------------------
(* Handlers                                                                 *)

Idx == 1..Len(participants)

\* What lastCall keeps of a handler run: the handler, the index of the
\* participant it ran on (0: the whole list), the participants before the run,
\* the argument, the clock value the handler read and, for a query, the value
\* returned.
Call(op, i, arg, result) ==
    [ op |-> op, idx |-> i, arg |-> arg, at |-> now, pre |-> participants,
      result |-> result ]

\* The speaking runs the mic signals describe: a true signal with no run
\* open opens one at clock value t, a false signal completes the open run.
signalled(run, isSpeaking, t) ==
    IF isSpeaking
    THEN IF run.openedAt = Null THEN [run EXCEPT !.openedAt = t] ELSE run
    ELSE IF run.openedAt = Null THEN run
         ELSE [ openedAt  |-> Null,
                completed |-> run.completed + (t - run.openedAt) ]

\* The clock advances between two handlers, to a later one of the instants T.
Tick(T) ==
    /\ \E t \in T : t > now /\ now' = t
    /\ UNCHANGED <<trackerVars, ccVars, fnCall, rosterVars>>

\* The microphone observer's callback with isParticipantSpeaking() true.
Speaking(i) ==
    /\ participants' = [participants EXCEPT ![i] = speaking(@, now)]
    /\ lastSignal' = [lastSignal EXCEPT ![i] = "true"]
    /\ runs' = [runs EXCEPT ![participants[i].initialId] =
                    signalled(@, TRUE, now)]
    /\ lastCall' = Call("speaking", i, Null, FALSE)
    /\ UNCHANGED <<now, ccVars, fnCall, rosterVars>>

\* The microphone observer's callback with isParticipantSpeaking() false.
PauseSpeaking(i) ==
    /\ participants' = [participants EXCEPT ![i] = pauseSpeaking(@, now)]
    /\ lastSignal' = [lastSignal EXCEPT ![i] = "false"]
    /\ runs' = [runs EXCEPT ![participants[i].initialId] =
                    signalled(@, FALSE, now)]
    /\ lastCall' = Call("pauseSpeaking", i, Null, FALSE)
    /\ UNCHANGED <<now, ccVars, fnCall, rosterVars>>

\* stopSpeaking() called on a participant.
StopSpeaking(i) ==
    /\ participants' = [participants EXCEPT ![i] = stopSpeaking(@)]
    /\ lastCall' = Call("stopSpeaking", i, Null, FALSE)
    /\ UNCHANGED <<now, lastSignal, runs, ccVars, fnCall, rosterVars>>

\* spokeRecently(referenceTime) called on a participant, with a timestamp,
\* null or 0 as referenceTime.
SpokeRecently(i) ==
    /\ \E r \in Instants \cup {Null, 0} :
          lastCall' = Call("spokeRecently", i, r,
                           spokeRecently(participants[i], r, now))
    /\ UNCHANGED <<now, participants, lastSignal, runs, ccVars, fnCall, rosterVars>>

\* Number(x) for a timestamp-or-null x, as Math.max converts its arguments.
ToNumber(x) == IF x = Null THEN 0 ELSE x

\* Math.max(...self.participants.map((p) => p.lastSpeakingEnd)), for a
\* non-empty list.
mostRecentInterventionEnd(ps) ==
    LET ends == { ToNumber(ps[i].lastSpeakingEnd) : i \in 1..Len(ps) }
    IN  CHOOSE m \in ends : \A e \in ends : e <= m

\* The strike reset of the summary logger's interval callback: every
\* participant for whom spokeRecently(mostRecentInterventionEnd) holds gets
\* stopSpeaking().  filter() evaluates spokeRecently on every participant
\* before forEach() resets any.  With no participant the list is empty and
\* nothing is reset.
strikeReset(ps, t) ==
    [ i \in 1..Len(ps) |->
        IF spokeRecently(ps[i], mostRecentInterventionEnd(ps), t)
        THEN stopSpeaking(ps[i])
        ELSE ps[i] ]

\* One run of the interval callback of startSummaryLogger.
SummaryLogger ==
    /\ participants' = strikeReset(participants, now)
    /\ lastCall' = Call("summaryLogger", 0, Null, FALSE)
    /\ UNCHANGED <<now, lastSignal, runs, ccVars, fnCall, rosterVars>>

-----------------------------------------------------------------------------
(* The roster: participant boxes added to and removed from the window       *)

\* The values of data-initial-participant-id, in the boxes' document order
BoxOrder == <<"p1", "p2">>
ParticipantIds == { BoxOrder[k] : k \in 1..Len(BoxOrder) }

\* A participant box as the handlers see it: a presentation
\* (isPresentationNode), a box with neither name nor image yet (unnamed:
\* isPresentationBox() holds of its Participant) or a participant's box; with
\* or without its microphone element.  NoBox: no box of that identifier.
Nodes == [ kind : {"participant", "presentation", "unnamed"},
           microphone : BOOLEAN ]
NoBox == [ kind |-> "none", microphone |-> FALSE ]

\* The index (1-based) of getParticipantByInitialId(initialId), 0 for
\* undefined: find() returns the first match
IndexOf(ps, initialId) ==
    LET found == { i \in 1..Len(ps) : ps[i].initialId = initialId }
    IN  IF found = {} THEN 0
        ELSE CHOOSE i \in found : \A other \in found : i <= other

\* startObservers(): microphoneObserver afterwards.  Without a microphone
\* element no observer is made and the field keeps its value.
startObservers(observer, node) ==
    IF node.microphone THEN "connected" ELSE observer

\* onParticipantNodeAdded that never looks for an existing participant.
onParticipantNodeAdded_AlwaysNew(r, initialId, node) ==
    IF node.kind = "presentation" THEN r
    ELSE IF node.kind = "unnamed" THEN r
    ELSE [ participants       |-> Append(r.participants,
                                         NewParticipant(initialId)),
           lastSignal         |-> Append(r.lastSignal, "none"),
           microphoneObserver |-> Append(r.microphoneObserver,
                                         startObservers("undefined", node)) ]

\* onParticipantNodeAdded(node) on r = [participants, lastSignal,
\* microphoneObserver], node being the box of initialId.  A new Participant
\* of an unnamed box is not pushed: its observer runs on an object outside
\* the list.
onParticipantNodeAdded(r, initialId, node) ==
    IF node.kind = "presentation" THEN r
    ELSE LET i == IndexOf(r.participants, initialId)
         IN  IF i = 0
             THEN IF node.kind = "unnamed" THEN r
                  ELSE [ participants       |-> Append(r.participants,
                                                       NewParticipant(initialId)),
                         lastSignal         |-> Append(r.lastSignal, "none"),
                         microphoneObserver |->
                             Append(r.microphoneObserver,
                                    startObservers("undefined", node)) ]
             ELSE [r EXCEPT !.microphoneObserver[i] = startObservers(@, node)]

\* onParticipantNodeRemoved(node) at clock value t.  stopObservers() calls
\* microphoneObserver.disconnect() first: with the field undefined that is
\* a TypeError and pauseSpeaking() is not reached.
onParticipantNodeRemoved(r, initialId, t) ==
    LET i == IndexOf(r.participants, initialId)
    IN  IF i = 0 THEN r
        ELSE IF r.microphoneObserver[i] = "undefined" THEN r
        ELSE [r EXCEPT !.microphoneObserver[i] = "disconnected",
                       !.participants[i] = pauseSpeaking(@, t)]

\* loadCurrentParticipantBoxes(): onParticipantNodeAdded on every box of the
\* window, from the k-th in document order
RECURSIVE loadCurrentParticipantBoxes(_, _, _)
loadCurrentParticipantBoxes(r, bx, k) ==
    IF k > Len(BoxOrder) THEN r
    ELSE IF bx[BoxOrder[k]] = NoBox
    THEN loadCurrentParticipantBoxes(r, bx, k + 1)
    ELSE loadCurrentParticipantBoxes(
             onParticipantNodeAdded(r, BoxOrder[k], bx[BoxOrder[k]]), bx, k + 1)

Roster ==
    [ participants       |-> participants,
      lastSignal         |-> lastSignal,
      microphoneObserver |-> microphoneObserver ]

\* A box appears in the window and the participants observer runs
\* onParticipantNodeAdded on it.
ParticipantNodeAdded(initialId, node) ==
    /\ boxes[initialId] = NoBox
    /\ boxes' = [boxes EXCEPT ![initialId] = node]
    /\ \E r \in { onParticipantNodeAdded(Roster, initialId, node) } :
          /\ participants' = r.participants
          /\ lastSignal' = r.lastSignal
          /\ microphoneObserver' = r.microphoneObserver
    /\ lastCall' = Call("nodeAdded", IndexOf(participants, initialId),
                        initialId, FALSE)
    /\ UNCHANGED <<now, runs, ccVars, fnCall>>

\* A box leaves the window and the participants observer runs
\* onParticipantNodeRemoved on it.  An observer that gets disconnected
\* delivers no further signal: the run its signals opened ends here.
ParticipantNodeRemoved(initialId) ==
    /\ boxes[initialId] # NoBox
    /\ boxes' = [boxes EXCEPT ![initialId] = NoBox]
    /\ \E r \in { onParticipantNodeRemoved(Roster, initialId, now) } :
          /\ participants' = r.participants
          /\ lastSignal' = r.lastSignal
          /\ microphoneObserver' = r.microphoneObserver
    /\ runs' = IF microphoneObserver' # microphoneObserver
               THEN [runs EXCEPT ![initialId] = signalled(@, FALSE, now)]
               ELSE runs
    /\ lastCall' = Call("nodeRemoved", IndexOf(participants, initialId),
                        initialId, FALSE)
    /\ UNCHANGED <<now, ccVars, fnCall>>

\* A box of the window gets its name, image and microphone element (the
\* participants observer watches the container's child list only, so no
\* handler runs).
BoxRendered(initialId) ==
    /\ boxes[initialId] \in Nodes
    /\ boxes[initialId].kind # "presentation"
    /\ boxes[initialId] # [ kind |-> "participant", microphone |-> TRUE ]
    /\ boxes' = [boxes EXCEPT ![initialId] =
                    [ kind |-> "participant", microphone |-> TRUE ]]
    /\ UNCHANGED <<now, trackerVars, microphoneObserver, ccVars, fnCall>>

\* The interval reconciliateCurrentBoxesInterval of meetingStarted.
LoadCurrentParticipantBoxes ==
    /\ \E r \in { loadCurrentParticipantBoxes(Roster, boxes, 1) } :
          /\ participants' = r.participants
          /\ lastSignal' = r.lastSignal
          /\ microphoneObserver' = r.microphoneObserver
    /\ lastCall' = Call("loadBoxes", 0, Null, FALSE)
    /\ UNCHANGED <<now, runs, boxes, ccVars, fnCall>>

\* A participant whose microphone observer can fire: it is connected and
\* the box is in the window.
Observed(i) ==
    /\ microphoneObserver[i] = "connected"
    /\ boxes[participants[i].initialId] # NoBox

-----------------------------------------------------------------------------
(* Strings: a string is the sequence of its characters.                     *)

Digits == <<"0", "1", "2", "3", "4", "5", "6", "7", "8", "9">>

\* String(n) for a natural number n: its decimal digits
RECURSIVE NumberToString(_)
NumberToString(n) ==
    IF n < 10 THEN <<Digits[n + 1]>>
    ELSE NumberToString(n \div 10) \o <<Digits[(n % 10) + 1]>>

\* n < 10 ? '0' + n : n, appended to a string
TwoDigits(n) == IF n < 10 THEN <<"0">> \o NumberToString(n) ELSE NumberToString(n)

\* formatTime that never pads minutes or seconds with a zero.
formatTime_NoPad(ms) ==
    LET seconds == (ms \div 1000) % 60
        minutes == (ms \div (60 * 1000)) % 60
        hours   == (ms \div (3600 * 1000)) % 3600
        afterHours ==
            IF hours # 0 THEN NumberToString(hours) \o <<":">> ELSE <<>>
        afterMinutes ==
            IF afterHours # <<>> \/ minutes # 0
            THEN afterHours \o NumberToString(minutes) \o <<":">>
            ELSE afterHours
    IN  IF afterMinutes # <<>> \/ seconds # 0
        THEN IF afterMinutes # <<>>
             THEN afterMinutes \o NumberToString(seconds)
             ELSE NumberToString(seconds) \o <<"s">>
        ELSE afterMinutes

\* formatTime(ms), for ms >= 0: Math.floor(x % m) of a non-negative quotient
\* is the integer quotient modulo m
formatTime(ms) ==
    LET seconds == (ms \div 1000) % 60
        minutes == (ms \div (60 * 1000)) % 60
        hours   == (ms \div (3600 * 1000)) % 3600
        afterHours ==
            IF hours # 0 THEN NumberToString(hours) \o <<":">> ELSE <<>>
        afterMinutes ==
            IF afterHours # <<>> \/ minutes # 0
            THEN (IF afterHours # <<>>
                  THEN afterHours \o TwoDigits(minutes)
                  ELSE afterHours \o NumberToString(minutes)) \o <<":">>
            ELSE afterHours
    IN  IF afterMinutes # <<>> \/ seconds # 0
        THEN IF afterMinutes # <<>>
             THEN afterMinutes \o TwoDigits(seconds)
             ELSE NumberToString(seconds) \o <<"s">>
        ELSE afterMinutes

UpperCase ==
    <<"A", "B", "C", "D", "E", "F", "G", "H", "I", "J", "K", "L", "M",
      "N", "O", "P", "Q", "R", "S", "T", "U", "V", "W", "X", "Y", "Z">>

LowerCase ==
    <<"a", "b", "c", "d", "e", "f", "g", "h", "i", "j", "k", "l", "m",
      "n", "o", "p", "q", "r", "s", "t", "u", "v", "w", "x", "y", "z">>

\* The characters of the model's strings
Alphabet ==
    { UpperCase[k] : k \in 1..Len(UpperCase) }
        \cup { LowerCase[k] : k \in 1..Len(LowerCase) }
        \cup { " ", ".", "!", "?", "," }

\* c.toLowerCase() for every character: an upper-case letter gives its
\* lower-case letter, any other character itself
LowerOf ==
    [ c \in Alphabet |->
        IF \E k \in 1..Len(UpperCase) : UpperCase[k] = c
        THEN LowerCase[CHOOSE k \in 1..Len(UpperCase) : UpperCase[k] = c]
        ELSE c ]

\* c.toLowerCase() for a one-character string
toLowerCase(c) == LowerOf[c]

\* str.substring(0, n)
Prefix(str, n) == SubSeq(str, 1, n)

\* wordsInString(str): the number of spaces, plus one
wordsInString(str) == Cardinality({ i \in 1..Len(str) : str[i] = " " }) + 1

-----------------------------------------------------------------------------
(* mergeStrings                                                             *)

INTERJECTIONS_TO_SEQUENCE_MIN_RATIO == 5
SHORT_SEQUENCE_MAX_LENGTH_MS == 3000
BASE_SEQUENCE_PER_WORD_LENGTH_MS == 100

PUNCTUATION_CHARS == {".", "!", "?", ","}

\* The length under which two strings are "short"
ShortTextLength == 30

\* The default of mergeStrings' requiredOverlapLength
requiredOverlapLength == 15

\* The iterations of mergeStrings' while loop that share one value of
\* idxStartMain, from the cursors idxMain and idxUpdate (0-based, as in the
\* source).  They end in one of four ways:
\*   "exhausted"  idxMain reached the end of mainString: the loop ends,
\*                foundString false;
\*   "found"      idxUpdate reached requiredOverlapLength: foundString true;
\*   "threw"      updateString[idxUpdate] is undefined (idxUpdate reached the
\*                update's length) and undefined.toLowerCase() is a TypeError;
\*   "mismatch"   two characters differ and neither is punctuation: the loop
\*                goes on with idxStartMain + 1, idxUpdate = 0.
RECURSIVE matchFrom(_, _, _, _)
matchFrom(mainString, updateString, idxMain, idxUpdate) ==
    IF idxMain >= Len(mainString) THEN "exhausted"
    ELSE IF idxUpdate >= requiredOverlapLength THEN "found"
    ELSE IF idxUpdate >= Len(updateString) THEN "threw"
    ELSE LET charInMain   == toLowerCase(mainString[idxMain + 1])
             charInUpdate == toLowerCase(updateString[idxUpdate + 1])
         IN  IF charInMain = charInUpdate
             THEN matchFrom(mainString, updateString, idxMain + 1, idxUpdate + 1)
             ELSE IF charInMain \in PUNCTUATION_CHARS
             THEN matchFrom(mainString, updateString, idxMain + 1, idxUpdate)
             ELSE IF charInUpdate \in PUNCTUATION_CHARS
             THEN matchFrom(mainString, updateString, idxMain, idxUpdate + 1)
             ELSE "mismatch"

\* The while loop of mergeStrings: idxStartMain goes up from 0 past every
\* start that ends in a mismatch; the first start that ends otherwise decides.
\* With a mismatch at every start the loop ends with idxMain at the end of
\* mainString, foundString false.
overlapScan(mainString, updateString) ==
    LET decisive == { idx \in 0..(Len(mainString) - 1) :
                        matchFrom(mainString, updateString, idx, 0) # "mismatch" }
    IN  IF decisive = {}
        THEN [ outcome |-> "exhausted", idxStartMain |-> Len(mainString) ]
        ELSE LET idxStartMain == CHOOSE idx \in decisive :
                                     \A other \in decisive : idx <= other
             IN  [ outcome      |-> matchFrom(mainString, updateString,
                                              idxStartMain, 0),
                   idxStartMain |-> idxStartMain ]

\* mergeStrings without its branch for two short strings.
mergeStrings_AlwaysScan(mainString, updateString) ==
    LET r == overlapScan(mainString, updateString)
    IN  IF r.outcome = "threw"
        THEN [ threw |-> TRUE, text |-> mainString ]
        ELSE IF r.outcome = "found"
        THEN [ threw |-> FALSE,
               text  |-> Prefix(mainString, r.idxStartMain) \o updateString ]
        ELSE [ threw |-> FALSE, text |-> mainString \o updateString ]

\* mergeStrings(mainString, updateString): the string returned, or threw
mergeStrings(mainString, updateString) ==
    IF Len(mainString) < ShortTextLength /\ Len(updateString) < ShortTextLength
    THEN [ threw |-> FALSE, text |-> updateString ]
    ELSE LET r == overlapScan(mainString, updateString)
         IN  IF r.outcome = "threw"
             THEN [ threw |-> TRUE, text |-> mainString ]
             ELSE IF r.outcome = "found"
             THEN [ threw |-> FALSE,
                    text  |-> Prefix(mainString, r.idxStartMain) \o updateString ]
             ELSE [ threw |-> FALSE, text |-> mainString \o updateString ]

-----------------------------------------------------------------------------
(* ClosedCaptionEvent                                                       *)

\* A ClosedCaptionEvent whose start is not backdated by its duration.
ClosedCaptionEvent_NoBackdate(when, who, what) ==
    [ id            |-> 0,
      who           |-> who,
      what          |-> what,
      howLong       |-> BASE_SEQUENCE_PER_WORD_LENGTH_MS * wordsInString(what),
      when          |-> when,
      whenSpokeLast |-> when,
      interjection  |-> FALSE,
      continuation  |-> FALSE ]

\* new ClosedCaptionEvent(when, who, what); id is the identity the object
\* gets when the engine keeps it (0: not kept)
ClosedCaptionEvent(when, who, what) ==
    LET howLong == BASE_SEQUENCE_PER_WORD_LENGTH_MS * wordsInString(what)
    IN  [ id            |-> 0,
          who           |-> who,
          what          |-> what,
          howLong       |-> howLong,
          when          |-> when - howLong,
          whenSpokeLast |-> when,
          interjection  |-> FALSE,
          continuation  |-> FALSE ]

\* this.completeFromUpdate(partialUpdate, sameTime): the event afterwards,
\* and whether mergeStrings threw (the timing fields are assigned before
\* mergeStrings is called).
completeFromUpdate(this, partialUpdate, sameTime) ==
    LET updateIsNotTrivial  == Len(this.what) # Len(partialUpdate.what)
        delaySinceLastEvent == partialUpdate.whenSpokeLast - this.whenSpokeLast
        timed == IF updateIsNotTrivial /\ ~sameTime
                 THEN [this EXCEPT !.howLong = this.howLong + delaySinceLastEvent,
                                   !.whenSpokeLast = partialUpdate.when]
                 ELSE this
        merged == mergeStrings(this.what, partialUpdate.what)
    IN  IF merged.threw
        THEN [ threw |-> TRUE, event |-> timed ]
        ELSE [ threw |-> FALSE, event |-> [timed EXCEPT !.what = merged.text] ]

-----------------------------------------------------------------------------
(* ClosedCaptions                                                           *)

\* The backward scan without the test of the earlier turn's duration against
\* the gap: any earlier turn of the speaker closes an interjection.
RECURSIVE interjectionScan_NoRatio(_, _)
interjectionScan_NoRatio(evs, idx) ==
    LET turnCount   == Len(evs)
        currentTurn == evs[turnCount]
    IN  IF idx < 1 THEN evs
        ELSE LET turn == evs[idx]
             IN  IF currentTurn.who = turn.who
                 THEN IF idx < turnCount - 1
                      THEN [ k \in 1..turnCount |->
                               IF k > idx /\ k < turnCount
                               THEN [evs[k] EXCEPT !.interjection = TRUE]
                               ELSE IF k = turnCount
                               THEN [evs[k] EXCEPT !.continuation = TRUE]
                               ELSE evs[k] ]
                      ELSE evs
                 ELSE IF turn.howLong > SHORT_SEQUENCE_MAX_LENGTH_MS
                 THEN evs
                 ELSE interjectionScan_NoRatio(evs, idx - 1)

\* The backward scan that goes on past a long turn of another speaker.
RECURSIVE interjectionScan_NoStop(_, _)
interjectionScan_NoStop(evs, idx) ==
    LET turnCount   == Len(evs)
        currentTurn == evs[turnCount]
    IN  IF idx < 1 THEN evs
        ELSE LET turn == evs[idx]
             IN  IF currentTurn.who = turn.who
                 THEN IF /\ idx < turnCount - 1
                         /\ turn.howLong >
                              (currentTurn.when - turn.whenSpokeLast)
                                  * INTERJECTIONS_TO_SEQUENCE_MIN_RATIO
                      THEN [ k \in 1..turnCount |->
                               IF k > idx /\ k < turnCount
                               THEN [evs[k] EXCEPT !.interjection = TRUE]
                               ELSE IF k = turnCount
                               THEN [evs[k] EXCEPT !.continuation = TRUE]
                               ELSE evs[k] ]
                      ELSE evs
                 ELSE interjectionScan_NoStop(evs, idx - 1)

\* The backward scan of _addEvent from index idx (1-based) of the list evs,
\* whose last element is the turn just pushed: the list with the flags set.
RECURSIVE interjectionScan(_, _)
interjectionScan(evs, idx) ==
    LET turnCount   == Len(evs)
        currentTurn == evs[turnCount]
    IN  IF idx < 1 THEN evs
        ELSE LET turn == evs[idx]
             IN  IF currentTurn.who = turn.who
                 THEN IF /\ idx < turnCount - 1
                         /\ turn.howLong >
                              (currentTurn.when - turn.whenSpokeLast)
                                  * INTERJECTIONS_TO_SEQUENCE_MIN_RATIO
                      THEN [ k \in 1..turnCount |->
                               IF k > idx /\ k < turnCount
                               THEN [evs[k] EXCEPT !.interjection = TRUE]
                               ELSE IF k = turnCount
                               THEN [evs[k] EXCEPT !.continuation = TRUE]
                               ELSE evs[k] ]
                      ELSE evs
                 ELSE IF turn.howLong > SHORT_SEQUENCE_MAX_LENGTH_MS
                 THEN evs
                 ELSE interjectionScan(evs, idx - 1)

\* _addEvent that puts the event at the front of the list.
addEvent_Front(evs, event) == <<event>> \o evs

\* _addEvent(event): the events list afterwards
addEvent(evs, event) ==
    LET pushed == Append(evs, event)
    IN  IF Len(pushed) >= 3
        THEN interjectionScan(pushed, Len(pushed) - 1)
        ELSE pushed

\* A finalization that adds the oldest buffered event to the list twice.
finalizeOldestBufferedEvent_Twice(cc) ==
    [ events       |-> addEvent(addEvent(cc.events, Head(cc.eventsBuffer)),
                                Head(cc.eventsBuffer)),
      eventsBuffer |-> Tail(cc.eventsBuffer) ]

\* A finalization that takes the newest buffered event (pop for shift).
finalizeOldestBufferedEvent_Newest(cc) ==
    [ events       |-> addEvent(cc.events,
                                cc.eventsBuffer[Len(cc.eventsBuffer)]),
      eventsBuffer |-> SubSeq(cc.eventsBuffer, 1, Len(cc.eventsBuffer) - 1) ]

\* _finalizeOldestBufferedEvent() on the lists cc = [events, eventsBuffer]
finalizeOldestBufferedEvent(cc) ==
    [ events       |-> addEvent(cc.events, Head(cc.eventsBuffer)),
      eventsBuffer |-> Tail(cc.eventsBuffer) ]

\* mergeLatestCC without its shrink loop.
shrink_Skip(cc, newEvents) == cc

\* The shrink loop stopping one turn early (an off-by-one in its test).
RECURSIVE shrink_OneLate(_, _)
shrink_OneLate(cc, newEvents) ==
    IF Len(cc.eventsBuffer) > Len(newEvents) + 1
    THEN shrink_OneLate(finalizeOldestBufferedEvent(cc), newEvents)
    ELSE cc

\* while (this.eventsBuffer.length > newEvents.length) finalize
RECURSIVE shrink(_, _)
shrink(cc, newEvents) ==
    IF Len(cc.eventsBuffer) > Len(newEvents)
    THEN shrink(finalizeOldestBufferedEvent(cc), newEvents)
    ELSE cc

\* mergeLatestCC without its realign loop.
realign_Skip(cc, newEvents) == cc

\* while (both non-empty && newEvents[0].who !== eventsBuffer[0].who) finalize
RECURSIVE realign(_, _)
realign(cc, newEvents) ==
    IF /\ Len(newEvents) > 0
       /\ Len(cc.eventsBuffer) > 0
       /\ newEvents[1].who # cc.eventsBuffer[1].who
    THEN realign(finalizeOldestBufferedEvent(cc), newEvents)
    ELSE cc

\* The for loop of mergeLatestCC from index idx (1-based), id being the
\* identity of the next event kept: the buffer afterwards, the next identity,
\* and whether completeFromUpdate threw on the way (the loop then stops with
\* the buffer as it is).
RECURSIVE mergeLoop(_, _, _, _)
mergeLoop(buffer, newEvents, idx, id) ==
    IF idx > Len(newEvents)
    THEN [ threw |-> FALSE, eventsBuffer |-> buffer, nextId |-> id ]
    ELSE IF idx <= Len(buffer)
    THEN LET sameTime == idx # Len(newEvents)
             r == completeFromUpdate(buffer[idx], newEvents[idx], sameTime)
             updated == [buffer EXCEPT ![idx] = r.event]
         IN  IF r.threw
             THEN [ threw |-> TRUE, eventsBuffer |-> updated, nextId |-> id ]
             ELSE mergeLoop(updated, newEvents, idx + 1, id)
    ELSE mergeLoop(Append(buffer, [newEvents[idx] EXCEPT !.id = id]),
                   newEvents, idx + 1, id + 1)

\* A caption line of the panel: the image's parent with divs child divs, the
\* first holding the speaker's name and the second the text.
Line(who, what, divs) == [ who |-> who, what |-> what, divs |-> divs ]

\* The lines mergeLatestCC keeps: those with exactly two child divs
RECURSIVE wellFormed(_)
wellFormed(lines) ==
    IF lines = <<>> THEN <<>>
    ELSE IF Head(lines).divs = 2
    THEN <<Head(lines)>> \o wellFormed(Tail(lines))
    ELSE wellFormed(Tail(lines))

\* One ClosedCaptionEvent per line, read at clock value t
RECURSIVE eventsOf(_, _)
eventsOf(kept, t) ==
    IF kept = <<>> THEN <<>>
    ELSE <<ClosedCaptionEvent(t, Head(kept).who, Head(kept).what)>>
            \o eventsOf(Tail(kept), t)

\* newEvents of mergeLatestCC: an event for every well-formed line
scrape(lines, t) == eventsOf(wellFormed(lines), t)

\* The body of mergeLatestCC() after the scrape, on the lists
\* cc = [events, eventsBuffer]: the lists afterwards, the next identity and
\* whether it threw.
mergeEvents(cc, newEvents, id) ==
    LET aligned == realign(shrink(cc, newEvents), newEvents)
    IN  IF Len(newEvents) >= Len(aligned.eventsBuffer)
        THEN LET m == mergeLoop(aligned.eventsBuffer, newEvents, 1, id)
             IN  [ events       |-> aligned.events,
                   eventsBuffer |-> m.eventsBuffer,
                   nextId       |-> m.nextId,
                   threw        |-> m.threw ]
        ELSE [ events       |-> aligned.events,
               eventsBuffer |-> aligned.eventsBuffer,
               nextId       |-> id,
               threw        |-> FALSE ]

\* mergeLatestCC() with the panel showing lines, at clock value t
mergeLatestCC(cc, lines, t, id) == mergeEvents(cc, scrape(lines, t), id)

-----------------------------------------------------------------------------
(* The transcript: a text is the sequence of its characters, a speaker's    *)
(* name and the interjection marker standing as one character each.         *)

NewLine == "\n"
InterjectionMarker == "[zap]"

\* `**${who}**: ${what} (${formatTime(howLong)})`
turnLine(ccEvent) ==
    <<"*", "*", ccEvent.who, "*", "*", ":", " ">> \o ccEvent.what
        \o <<" ", "(">> \o formatTime(ccEvent.howLong) \o <<")">>

\* The body of toMarkdown's for loop for this.events[i] (i 1-based): what it
\* appends to dialogMD
markdownOf(evs, i) ==
    LET ccEvent == evs[i]
        howLongStr == formatTime(ccEvent.howLong)
    IN  IF ccEvent.interjection
        THEN <<InterjectionMarker, "*", ccEvent.who, ":", " ">> \o ccEvent.what
                \o (IF howLongStr # <<>>
                    THEN <<" ", "(">> \o howLongStr \o <<")">>
                    ELSE <<>>)
                \o <<"*", " ">>
        ELSE IF ccEvent.continuation
        THEN <<" ">> \o ccEvent.what \o <<" ", "(">> \o howLongStr \o <<")">>
        ELSE (IF i > 1 THEN <<NewLine>> ELSE <<>>) \o turnLine(ccEvent)

\* dialogMD after the iterations 1..i of toMarkdown's loop
RECURSIVE markdownUpTo(_, _)
markdownUpTo(evs, i) ==
    IF i = 0 THEN <<>> ELSE markdownUpTo(evs, i - 1) \o markdownOf(evs, i)

\* ClosedCaptions.toMarkdown() on the list evs
toMarkdown(evs) == markdownUpTo(evs, Len(evs)) \o <<NewLine>>

\* dialogMD of the summary logger's interval callback (the text of the
\* in-page textarea): one line for every event of closedCaptions.events
RECURSIVE inPageTranscript(_)
inPageTranscript(evs) ==
    IF evs = <<>> THEN <<>>
    ELSE turnLine(Head(evs)) \o <<NewLine>> \o inPageTranscript(Tail(evs))

\* The popup's updateView calls toMarkdown() on the finalized list.
ToMarkdown ==
    /\ fnCall' = [ fn |-> "toMarkdown", log |-> events,
                   result |-> toMarkdown(events) ]
    /\ UNCHANGED <<now, trackerVars, ccVars, rosterVars>>

\* The summary logger's interval callback renders the in-page transcript.
InPageTranscript ==
    /\ fnCall' = [ fn |-> "inPageTranscript", log |-> events,
                   result |-> inPageTranscript(events) ]
    /\ UNCHANGED <<now, trackerVars, ccVars, rosterVars>>

-----------------------------------------------------------------------------
(* The caption panel                                                        *)

TextHi ==
    <<"H", "i">>

TextHiThere ==
    <<"H", "i", " ", "t", "h", "e", "r", "e">>

TextMain ==
    <<"I", " ", "t", "h", "i", "n", "k", " ", "t", "h", "i", "s", " ", "i",
      "s", " ", "w", "h", "y", ",", " ", "t", "h", "e", " ", "w", "e", "a",
      "t", "h", "e", "r", " ", "i", "s", " ", "n", "i", "c", "e">>

TextUpdate ==
    <<"t", "h", "e", " ", "w", "e", "a", "t", "h", "e", "r", " ", "i", "s",
      " ", "n", "i", "c", "e", " ", "t", "o", "d", "a", "y", " ", "a", "n",
      "d">>

\* "So I think. The weather, is Nice! Right"
TextMainPunct ==
    <<"S", "o", " ", "I", " ", "t", "h", "i", "n", "k", ".", " ", "T", "h",
      "e", " ", "w", "e", "a", "t", "h", "e", "r", ",", " ", "i", "s", " ",
      "N", "i", "c", "e", "!", " ", "R", "i", "g", "h", "t">>

\* "the weather is nice and the weather is nice"
TextMainTwice ==
    <<"t", "h", "e", " ", "w", "e", "a", "t", "h", "e", "r", " ", "i", "s",
      " ", "n", "i", "c", "e", " ", "a", "n", "d", " ", "t", "h", "e", " ",
      "w", "e", "a", "t", "h", "e", "r", " ", "i", "s", " ", "n", "i", "c",
      "e">>

\* "The weather, is nice. Today"
TextUpdateCaps ==
    <<"T", "h", "e", " ", "w", "e", "a", "t", "h", "e", "r", ",", " ", "i",
      "s", " ", "n", "i", "c", "e", ".", " ", "T", "o", "d", "a", "y">>

\* The panel's contents the model draws from, top to bottom: no line, one
\* line, two lines (with the second line of either speaker), three lines,
\* and lines without their text div (one child div instead of two).
Snapshots ==
    { <<>>,
      <<Line("A", TextMain, 2)>>,
      <<Line("A", TextUpdate, 2)>>,
      <<Line("A", TextHi, 2)>>,
      <<Line("B", TextHi, 2)>>,
      <<Line("A", <<>>, 1)>>,
      <<Line("A", TextMain, 2), Line("B", TextHi, 2)>>,
      <<Line("A", TextMain, 2), Line("A", TextHi, 2)>>,
      <<Line("A", TextUpdate, 2), Line("B", TextHiThere, 2)>>,
      <<Line("A", TextMain, 2), Line("B", <<>>, 1), Line("B", TextHi, 2)>>,
      <<Line("A", TextUpdate, 2), Line("B", TextHi, 2), Line("A", TextHi, 2)>> }

\* The instants of the caption engine's clock: the start, a word's worth of
\* time after it, and a short sequence's worth of time after it.
CCInstants ==
    { StartTime,
      StartTime + BASE_SEQUENCE_PER_WORD_LENGTH_MS,
      StartTime + SHORT_SEQUENCE_MAX_LENGTH_MS }

\* The caption observer's callback: mergeLatestCC() with the panel showing
\* lines.  The model stops after MaxRounds calls.
MergeLatestCC(lines) ==
    \E r \in { mergeLatestCC([events |-> events, eventsBuffer |-> eventsBuffer],
                             lines, now, nextId) } :
        /\ ccRounds < MaxRounds
        /\ ccRounds' = ccRounds + 1
        /\ events' = r.events
        /\ eventsBuffer' = r.eventsBuffer
        /\ nextId' = r.nextId
        /\ snapshot' = lines
        /\ ccOutcome' = IF r.threw THEN "threw" ELSE "completed"
        /\ UNCHANGED <<now, trackerVars, fnCall, rosterVars>>

-----------------------------------------------------------------------------
(* Calls of the pure functions and of _addEvent                             *)

\* Every prefix of a string, the empty one and the string itself included
Prefixes(str) == { Prefix(str, n) : n \in 0..Len(str) }

\* The strings mergeStrings is called on: the text a turn has accumulated ...
MainStrings ==
    Prefixes(TextMain) \cup Prefixes(TextMainPunct) \cup Prefixes(TextMainTwice)
        \cup {TextHi}

\* ... and the text of the caption line read for it
UpdateStrings ==
    Prefixes(TextUpdate) \cup Prefixes(TextUpdateCaps) \cup {TextHi, TextHiThere}

\* The call mergeStrings(mainString, updateString) about to be made
MergeStringsCall(mainString, updateString) ==
    [ fn           |-> "mergeStrings",
      mainString   |-> mainString,
      updateString |-> updateString,
      returned     |-> FALSE,
      threw        |-> FALSE,
      result       |-> <<>> ]

\* The pending call of mergeStrings runs
MergeStrings ==
    /\ fnCall.fn = "mergeStrings"
    /\ ~fnCall.returned
    /\ \E r \in { mergeStrings(fnCall.mainString, fnCall.updateString) } :
          fnCall' = [fnCall EXCEPT !.returned = TRUE,
                                   !.threw    = r.threw,
                                   !.result   = r.text]
    /\ UNCHANGED <<now, trackerVars, ccVars, rosterVars>>

\* The durations formatTime is called on, in milliseconds
Durations ==
    { h * 3600 * 1000 + m * 60 * 1000 + sec * 1000 + ms :
        h \in 0..MaxHours, m \in {0, 1, 10, 59}, sec \in {0, 1, 5, 45, 59},
        ms \in {0, 999} }

\* The call formatTime(ms) about to be made
FormatTimeCall(ms) ==
    [ fn |-> "formatTime", ms |-> ms, returned |-> FALSE, result |-> <<>> ]

\* The pending call of formatTime runs
FormatTime ==
    /\ fnCall.fn = "formatTime"
    /\ ~fnCall.returned
    /\ fnCall' = [fnCall EXCEPT !.returned = TRUE,
                                !.result   = formatTime(fnCall.ms)]
    /\ UNCHANGED <<now, trackerVars, ccVars, rosterVars>>

\* The turns _addEvent is called on: a turn of speaker who that lasted
\* howLong and started gap after the last update of the turn finalized before
\* it (after StartTime for the first).
TurnLengths == {500, 3100, 8000, 20000}
TurnGaps == {100, 2000}

\* A call of _addEvent(event) with such a turn.  The model stops after
\* MaxTurns calls.
AddEvent(who, howLong, gap) ==
    LET lastEnd == IF events = <<>> THEN StartTime
                   ELSE events[Len(events)].whenSpokeLast
        event == [ id            |-> nextId,
                   who           |-> who,
                   what          |-> TextHi,
                   howLong       |-> howLong,
                   when          |-> lastEnd + gap,
                   whenSpokeLast |-> lastEnd + gap + howLong,
                   interjection  |-> FALSE,
                   continuation  |-> FALSE ]
    IN  /\ Len(events) < MaxTurns
        /\ events' = addEvent(events, event)
        /\ nextId' = nextId + 1
        /\ UNCHANGED <<now, trackerVars, eventsBuffer, snapshot, ccOutcome,
                       ccRounds, fnCall, rosterVars>>

-----------------------------------------------------------------------------
(* Specifications                                                           *)

\* new ClosedCaptions(): both lists empty, nothing read yet.
InitCaptions ==
    /\ events = <<>>
    /\ eventsBuffer = <<>>
    /\ nextId = 1
    /\ snapshot = <<>>
    /\ ccOutcome = "none"
    /\ ccRounds = 0

\* A meeting that has just started with the participants ps loaded.
InitState(ps) ==
    /\ now = StartTime
    /\ participants = ps
    /\ lastSignal = [ i \in 1..Len(ps) |-> "none" ]
    /\ runs = [ initialId \in ParticipantIds |->
                  [ openedAt |-> Null, completed |-> 0 ] ]
    /\ lastCall = [ op |-> "init", idx |-> 0, arg |-> Null, at |-> StartTime,
                    pre |-> ps, result |-> FALSE ]
    /\ InitCaptions
    /\ boxes = [ initialId \in ParticipantIds |->
                   IF IndexOf(ps, initialId) # 0
                   THEN [ kind |-> "participant", microphone |-> TRUE ]
                   ELSE NoBox ]
    /\ microphoneObserver = [ i \in 1..Len(ps) |-> "connected" ]

\* ... and no pure function under study.
InitWith(ps) == InitState(ps) /\ fnCall = [ fn |-> "none" ]

InitTracker == InitWith(<<NewParticipant("p1")>>)

\* One tracker driven by mic signals only.
NextSignals ==
    \/ Tick(Instants)
    \/ \E i \in Idx : Speaking(i)
    \/ \E i \in Idx : PauseSpeaking(i)

SpecSignals == InitTracker /\ [][NextSignals]_vars

\* One tracker driven by mic signals, stopSpeaking() and spokeRecently().
NextTracker ==
    \/ Tick(Instants)
    \/ \E i \in Idx : Speaking(i)
    \/ \E i \in Idx : PauseSpeaking(i)
    \/ \E i \in Idx : StopSpeaking(i)
    \/ \E i \in Idx : SpokeRecently(i)

SpecTracker == InitTracker /\ [][NextTracker]_vars

\* A meeting with two participant boxes loaded, their mic signals and the
\* summary logger's interval.
InitMeeting == InitWith(<<NewParticipant("p1"), NewParticipant("p2")>>)

NextMeeting ==
    \/ Tick(Instants)
    \/ \E i \in Idx : Speaking(i)
    \/ \E i \in Idx : PauseSpeaking(i)
    \/ SummaryLogger

SpecMeeting == InitMeeting /\ [][NextMeeting]_vars

\* The caption engine driven by the panel's changes.
InitCC == InitWith(<<>>)

NextCC ==
    \/ Tick(CCInstants)
    \/ \E lines \in Snapshots : MergeLatestCC(lines)

SpecCC == InitCC /\ [][NextCC]_vars

\* The caption engine and the two renderings of its finalized list; the
\* model follows the engine up to a rendering and no further.
InitTranscript == InitWith(<<>>)

NextTranscript ==
    \/ fnCall.fn = "none" /\ Tick(CCInstants)
    \/ fnCall.fn = "none" /\ \E lines \in Snapshots : MergeLatestCC(lines)
    \/ ToMarkdown
    \/ InPageTranscript

SpecTranscript == InitTranscript /\ [][NextTranscript]_vars

\* The roster of a meeting: boxes come, get rendered and go, the interval
\* reloads them, and the observed participants' mic signals arrive.
RosterInstants == { StartTime + a : a \in 0..MaxSmallSteps }

InitRoster == InitWith(<<>>)

NextRoster ==
    \/ Tick(RosterInstants)
    \/ \E initialId \in ParticipantIds, node \in Nodes :
          ParticipantNodeAdded(initialId, node)
    \/ \E initialId \in ParticipantIds : ParticipantNodeRemoved(initialId)
    \/ \E initialId \in ParticipantIds : BoxRendered(initialId)
    \/ LoadCurrentParticipantBoxes
    \/ \E i \in Idx : Observed(i) /\ Speaking(i)
    \/ \E i \in Idx : Observed(i) /\ PauseSpeaking(i)

SpecRoster == InitRoster /\ [][NextRoster]_vars

\* The finalized list driven by calls of _addEvent.
InitLog == InitWith(<<>>)

NextLog == \E who \in {"A", "B"}, howLong \in TurnLengths, gap \in TurnGaps :
               AddEvent(who, howLong, gap)

SpecLog == InitLog /\ [][NextLog]_vars

\* mergeStrings called on any pair of the model's strings.
InitMerge ==
    /\ InitState(<<>>)
    /\ \E mainString \in MainStrings, updateString \in UpdateStrings :
          fnCall = MergeStringsCall(mainString, updateString)

NextMerge == MergeStrings

SpecMerge == InitMerge /\ [][NextMerge]_vars

\* formatTime called on any of the model's durations.
InitFormat ==
    /\ InitState(<<>>)
    /\ \E ms \in Durations : fnCall = FormatTimeCall(ms)

NextFormat == FormatTime

SpecFormat == InitFormat /\ [][NextFormat]_vars

-----------------------------------------------------------------------------
(* Speaking-time tracker: properties                                        *)

\* The participant the last handler ran on, before and after the run.
Pre == lastCall.pre[lastCall.idx]
Post == participants[lastCall.idx]

\* C1: under mic signals alone (speaking() / pauseSpeaking()) and a
\* non-decreasing clock, getTotalSpeakingTime() read at the current clock
\* value never decreases from one step to the next.
C1_TotalTimeMonotone ==
    [][\A i \in Idx :
          getTotalSpeakingTime(participants'[i], now')
              >= getTotalSpeakingTime(participants[i], now)]_vars

\* A second run is open and has lasted some time, on top of a committed run.
C1_Witness ==
    /\ participants[1].totalSpeakingTime > 0
    /\ participants[1].speakingStrikeStart # Null
    /\ now > participants[1].speakingStrikeStart

\* C2: a pauseSpeaking() that finds speakingStrikeStart set adds exactly
\* now - speakingStrikeStart to speakingStrikeTime and to totalSpeakingTime,
\* clears speakingStrikeStart and sets lastSpeakingEnd to now; on a fresh
\* tracker, speaking() at t1 then pauseSpeaking() at t2 > t1 leaves
\* totalSpeakingTime = t2 - t1.
C2_StrikeAccounting ==
    (lastCall.op = "pauseSpeaking" /\ Pre.speakingStrikeStart # Null) =>
        /\ Post.totalSpeakingTime
              = Pre.totalSpeakingTime + (lastCall.at - Pre.speakingStrikeStart)
        /\ Post.speakingStrikeTime
              = Pre.speakingStrikeTime + (lastCall.at - Pre.speakingStrikeStart)
        /\ Post.speakingStrikeStart = Null
        /\ Post.lastSpeakingEnd = lastCall.at
        /\ (Pre = [NewParticipant(Pre.initialId) EXCEPT
                      !.speakingStrikeStart = Pre.speakingStrikeStart]
              => Post.totalSpeakingTime = lastCall.at - Pre.speakingStrikeStart)

\* The first run of a fresh tracker has just been closed, at t2 > t1.
C2_Witness ==
    /\ lastCall.op = "pauseSpeaking"
    /\ Pre.speakingStrikeStart # Null
    /\ Pre.totalSpeakingTime = 0
    /\ Pre.lastSpeakingEnd = Null
    /\ lastCall.at > Pre.speakingStrikeStart
    /\ Post.totalSpeakingTime = lastCall.at - Pre.speakingStrikeStart

\* C3: in every reachable state, under any interleaving of mic signals and
\* stopSpeaking(), speakingStrikeStart is set if and only if the last mic
\* signal delivered for the participant was true.
C3_StrikeStartIffSpeaking ==
    \A i \in Idx :
        (participants[i].speakingStrikeStart # Null) <=> (lastSignal[i] = "true")

\* C4: under mic signals and stopSpeaking() in any order (stopSpeaking()
\* with a run open included) and a non-decreasing clock,
\* getTotalSpeakingTime() never decreases from one step to the next.
C4_TotalTimeMonotoneWithInterrupt ==
    [][\A i \in Idx :
          getTotalSpeakingTime(participants[i], now)
              <= getTotalSpeakingTime(participants'[i], now')]_vars

\* C5: stopSpeaking() leaves lastSpeakingEnd and speakingStrikeStart unset
\* and speakingStrikeTime 0, and totalSpeakingTime (and the identifier) as
\* they were.
C5_InterruptFrame ==
    lastCall.op = "stopSpeaking" =>
        /\ Post.lastSpeakingEnd = Null
        /\ Post.speakingStrikeStart = Null
        /\ Post.speakingStrikeTime = 0
        /\ Post.totalSpeakingTime = Pre.totalSpeakingTime
        /\ Post.initialId = Pre.initialId

\* stopSpeaking() ran on a tracker with a run open, an earlier run committed
\* and every field it clears set.
C5_Witness ==
    /\ lastCall.op = "stopSpeaking"
    /\ Pre.speakingStrikeStart # Null
    /\ Pre.lastSpeakingEnd # Null
    /\ Pre.speakingStrikeTime > 0
    /\ Pre.totalSpeakingTime > 0

\* The reference time spokeRecently compares with: its argument, or the
\* clock when the argument is null or 0.
RefTime == IF Falsy(lastCall.arg) THEN lastCall.at ELSE lastCall.arg

\* C6 as stated: spokeRecently(referenceTime) is true if and only if
\* lastSpeakingEnd is set and lastSpeakingEnd >= referenceTime - threshold
\* (the last utterance ended within the threshold of the reference time).
C6_SpokeRecentlyWithinThreshold ==
    lastCall.op = "spokeRecently" =>
        (lastCall.result <=>
            (/\ Pre.lastSpeakingEnd # Null
             /\ Pre.lastSpeakingEnd >= RefTime - RECENCY_THRESHOLD_MS))

\* C6 amended: spokeRecently(referenceTime) is true if and only if
\* lastSpeakingEnd is set and the reference time (the clock when the argument
\* is null or 0) is more than RECENCY_THRESHOLD_MS after lastSpeakingEnd; it
\* is false whenever lastSpeakingEnd is unset, and changes no field.
C6_SpokeRecentlyPastThreshold ==
    lastCall.op = "spokeRecently" =>
        /\ lastCall.result <=>
              (/\ Pre.lastSpeakingEnd # Null
               /\ RefTime - Pre.lastSpeakingEnd > RECENCY_THRESHOLD_MS)
        /\ (Pre.lastSpeakingEnd = Null => ~lastCall.result)
        /\ Post = Pre

\* spokeRecently answered true for an utterance that ended more than the
\* threshold before the reference time.
C6_Witness ==
    /\ lastCall.op = "spokeRecently"
    /\ lastCall.result
    /\ lastCall.arg # Null
    /\ lastCall.arg - Pre.lastSpeakingEnd = RECENCY_THRESHOLD_MS + 1

\* C7: speaking() on a participant whose speakingStrikeStart is set changes
\* no field: speakingStrikeStart keeps the time of the first true signal of
\* the run, however late the repeated signal comes.
C7_RepeatedTrueIsNoOp ==
    (lastCall.op = "speaking" /\ Pre.speakingStrikeStart # Null) => Post = Pre

\* A true signal arrived later than the one that opened the run.
C7_Witness ==
    /\ lastCall.op = "speaking"
    /\ Pre.speakingStrikeStart # Null
    /\ lastCall.at > Pre.speakingStrikeStart
    /\ Post.speakingStrikeStart = Pre.speakingStrikeStart

\* C8: pauseSpeaking() on a participant whose speakingStrikeStart is unset
\* changes no field; lastSpeakingEnd is set to now only when
\* speakingStrikeStart was set.
C8_FalseWhileIdleIsNoOp ==
    (lastCall.op = "pauseSpeaking" /\ Pre.speakingStrikeStart = Null) => Post = Pre

-----------------------------------------------------------------------------
(* Caption reconciliation engine: properties                                *)

\* C9: a mergeLatestCC that reads the same lines as the completed
\* mergeLatestCC before it leaves the buffer (every turn's text, speaker,
\* timestamps and duration) and the finalized log as they were.
C9_ReconcileIdempotent ==
    [][(/\ ccOutcome = "completed"
        /\ ccRounds' = ccRounds + 1
        /\ snapshot' = snapshot)
          => (eventsBuffer' = eventsBuffer /\ events' = events)]_vars

\* C10: after every mergeLatestCC that ran to completion, the buffer holds
\* as many turns as the lines read had two child divs.
C10_BufferLengthIsSnapshotLength ==
    ccOutcome = "completed" => Len(eventsBuffer) = Len(wellFormed(snapshot))

\* A completed call read three lines, one of them malformed, and had to
\* finalize a turn to get there.
C10_Witness ==
    /\ ccOutcome = "completed"
    /\ Len(snapshot) = 3
    /\ Len(wellFormed(snapshot)) = 2
    /\ Len(eventsBuffer) = 2
    /\ Len(events) >= 1

\* The identities of the turns of a list, and a list without a turn twice
Ids(turns) == { turns[k].id : k \in 1..Len(turns) }
NoTurnTwice(turns) ==
    \A j, k \in 1..Len(turns) : j # k => turns[j].id # turns[k].id

\* C11: in every reachable state no turn is in both the buffer and the
\* finalized list, and no turn is in either list twice; from one state to the
\* next every finalized turn stays finalized and none is in the buffer again.
C11_SingleOwner ==
    /\ [](/\ Ids(eventsBuffer) \cap Ids(events) = {}
          /\ NoTurnTwice(events)
          /\ NoTurnTwice(eventsBuffer))
    /\ [][/\ Ids(events) \subseteq Ids(events')
          /\ Ids(events) \cap Ids(eventsBuffer') = {}]_vars

\* Two turns have been finalized and a third one is still buffered.
C11_Witness ==
    /\ Len(events) = 2
    /\ Len(eventsBuffer) = 1
    /\ eventsBuffer[1].id = 3

\* What never changes of a finalized turn: identity, speaker, text, start
Core(turn) ==
    [ id |-> turn.id, who |-> turn.who, what |-> turn.what, when |-> turn.when ]

\* C12: every step leaves the finalized list a prefix of the new one as far
\* as identity, speaker, text and start of its turns go (only the flags may
\* differ), and the turns it appends are the turns at the front of the
\* buffer, in the buffer's order.
C12_LogAppendOnly ==
    [][LET added == Len(events') - Len(events)
       IN  /\ added >= 0
           /\ added <= Len(eventsBuffer)
           /\ \A k \in 1..Len(events) : Core(events'[k]) = Core(events[k])
           /\ \A k \in 1..added :
                 Core(events'[Len(events) + k]) = Core(eventsBuffer[k])]_vars

\* Three turns are finalized and the second one got its interjection flag
\* when the third one was added.
C12_Witness ==
    /\ Len(events) = 3
    /\ events[2].interjection
    /\ events[3].continuation

\* C13: a mergeLatestCC that reads no line completes, finalizes every
\* buffered turn in the buffer's order with its text, duration and timestamps
\* as they were, leaves the buffer empty and creates no turn.
C13_EmptySnapshotOnlyShrinks ==
    [][(ccRounds' = ccRounds + 1 /\ wellFormed(snapshot') = <<>>)
          => /\ ccOutcome' = "completed"
             /\ eventsBuffer' = <<>>
             /\ nextId' = nextId
             /\ Len(events') = Len(events) + Len(eventsBuffer)
             /\ \A k \in 1..Len(eventsBuffer) :
                   [events'[Len(events) + k] EXCEPT !.interjection = FALSE,
                                                     !.continuation = FALSE]
                       = eventsBuffer[k]]_vars

\* The second call read an empty panel and finalized the three turns the
\* first one had buffered.
C13_Witness ==
    /\ ccRounds = 2
    /\ snapshot = <<>>
    /\ eventsBuffer = <<>>
    /\ Len(events) = 3

\* C14: mergeStrings never raises, so every mergeLatestCC runs to completion.
C14_MergeNeverRaises == ccOutcome # "threw"

\* A string in lower case without its punctuation characters
Normalize(str) ==
    LET lower == [ k \in 1..Len(str) |-> toLowerCase(str[k]) ]
        Kept(c) == c \notin PUNCTUATION_CHARS
    IN  SelectSeq(lower, Kept)

\* The start offsets of mainString from which the first requiredOverlapLength
\* characters of updateString match, case and punctuation aside
OverlapStarts(mainString, updateString) ==
    IF Len(updateString) < requiredOverlapLength THEN {}
    ELSE LET head == Normalize(Prefix(updateString, requiredOverlapLength))
         IN  { start \in 0..(Len(mainString) - 1) :
                 LET rest == Normalize(SubSeq(mainString, start + 1,
                                              Len(mainString)))
                 IN  /\ Len(head) <= Len(rest)
                     /\ SubSeq(rest, 1, Len(head)) = head }

\* The least of a non-empty set of offsets
Least(offsets) == CHOOSE o \in offsets : \A other \in offsets : o <= other

\* C15: when mainString or updateString has at least 30 characters and the
\* first 15 characters of updateString match from some start offset of
\* mainString (a match that ends on mainString's last character included),
\* mergeStrings returns mainString cut at the least such offset followed by
\* updateString.
C15_SpliceAtLeastOverlap ==
    (/\ fnCall.fn = "mergeStrings"
     /\ fnCall.returned
     /\ (\/ Len(fnCall.mainString) >= ShortTextLength
         \/ Len(fnCall.updateString) >= ShortTextLength)
     /\ OverlapStarts(fnCall.mainString, fnCall.updateString) # {})
        => /\ ~fnCall.threw
           /\ fnCall.result =
                 Prefix(fnCall.mainString,
                        Least(OverlapStarts(fnCall.mainString,
                                            fnCall.updateString)))
                     \o fnCall.updateString

C17_InterjectionClassification ==
    [][Len(events') = Len(events) + 1 =>
        LET turnCount == Len(events')
            currentTurn == events'[turnCount]
            earlier == { k \in 1..Len(events) : events[k].who = currentTurn.who }
            prior == CHOOSE k \in earlier : \A other \in earlier : other <= k
        IN  (/\ earlier # {}
             /\ prior < turnCount - 1
             /\ \A k \in (prior + 1)..(turnCount - 1) :
                   events[k].howLong <= SHORT_SEQUENCE_MAX_LENGTH_MS)
               => IF events[prior].howLong >
                       (currentTurn.when - events[prior].whenSpokeLast)
                           * INTERJECTIONS_TO_SEQUENCE_MIN_RATIO
                  THEN /\ currentTurn.continuation
                       /\ \A k \in (prior + 1)..(turnCount - 1) :
                             events'[k].interjection
                  ELSE /\ ~currentTurn.continuation
                       /\ ~currentTurn.interjection
                       /\ \A k \in 1..Len(events) : events'[k] = events[k]]_vars

\* A spoke for 8000 ms, B for 500 ms, and A resumed after a small gap: B's
\* turn is an interjection and A's second turn a continuation.
C17_Witness ==
    /\ Len(events) = 3
    /\ events[1].who = "A" /\ events[1].howLong = 8000
    /\ events[2].who = "B" /\ events[2].howLong = 500
    /\ events[3].who = "A"
    /\ events[3].when - events[1].whenSpokeLast < 1000
    /\ events[2].interjection
    /\ events[3].continuation

\* C18: formatTime(0) is "", formatTime(45000) is "45s", formatTime(65000) is
\* "1:05" and formatTime(3661000) is "1:01:01".
C18_FormatterTable ==
    (fnCall.fn = "formatTime" /\ fnCall.returned) =>
        /\ (fnCall.ms = 0 => fnCall.result = <<>>)
        /\ (fnCall.ms = 45000 => fnCall.result = <<"4", "5", "s">>)
        /\ (fnCall.ms = 65000 => fnCall.result = <<"1", ":", "0", "5">>)
        /\ (fnCall.ms = 3661000
              => fnCall.result = <<"1", ":", "0", "1", ":", "0", "1">>)

\* formatTime(3661000) returned "1:01:01".
C18_Witness ==
    /\ fnCall.fn = "formatTime"
    /\ fnCall.returned
    /\ fnCall.ms = 3661000
    /\ fnCall.result = <<"1", ":", "0", "1", ":", "0", "1">>

\* C19: a mergeLatestCC that reads at least one line retires turns from the
\* front of the buffer only, in the buffer's order (the turns it finalizes
\* are the first of the old buffer, the turns it keeps are the rest, in
\* place), and leaves a buffer whose front turn has the speaker of the first
\* line read.
C19_RealignFront ==
    [][(ccRounds' = ccRounds + 1 /\ wellFormed(snapshot') # <<>>) =>
        LET retired == Len(events') - Len(events)
        IN  /\ retired \in 0..Len(eventsBuffer)
            /\ \A k \in 1..retired :
                  events'[Len(events) + k].id = eventsBuffer[k].id
            /\ Len(eventsBuffer') >= Len(eventsBuffer) - retired
            /\ \A k \in 1..(Len(eventsBuffer) - retired) :
                  eventsBuffer'[k].id = eventsBuffer[retired + k].id
            /\ eventsBuffer' # <<>>
            /\ eventsBuffer'[1].who = wellFormed(snapshot')[1].who]_vars

\* The first call buffered a turn of B alone; the second read a line of A
\* above a line of B, so the realign loop finalized B's turn.
C19_Witness ==
    /\ ccRounds = 2
    /\ Len(snapshot) = 2
    /\ Len(events) = 1
    /\ events[1].who = "B"
    /\ Len(eventsBuffer) = 2
    /\ eventsBuffer[1].who = "A"

C21_FallbackIffNoOverlap ==
    (/\ fnCall.fn = "mergeStrings"
     /\ fnCall.returned
     /\ (\/ Len(fnCall.mainString) >= ShortTextLength
         \/ Len(fnCall.updateString) >= ShortTextLength))
        => ((/\ ~fnCall.threw
             /\ fnCall.result = fnCall.mainString \o fnCall.updateString)
              <=> OverlapStarts(fnCall.mainString, fnCall.updateString) = {})

\* C22: in a mergeLatestCC that completes, a buffered turn that gets a line
\* of another length, the line being the last one read (not a same-time
\* update), has howLong raised by the time since its whenSpokeLast and
\* whenSpokeLast set to the time of the call, never earlier than before; a
\* turn that gets a line of the same length, or a line that is not the last,
\* keeps howLong and whenSpokeLast.
C22_TimingUpdate ==
    [][(ccRounds' = ccRounds + 1 /\ ccOutcome' = "completed") =>
        LET lines   == wellFormed(snapshot')
            retired == Len(events') - Len(events)
            kept    == Len(eventsBuffer) - retired
        IN  \A i \in 1..kept :
              LET old == eventsBuffer[retired + i]
                  new == eventsBuffer'[i]
              IN  IF Len(old.what) # Len(lines[i].what) /\ i = Len(lines)
                  THEN /\ new.howLong = old.howLong + (now - old.whenSpokeLast)
                       /\ new.whenSpokeLast = now
                       /\ new.whenSpokeLast >= old.whenSpokeLast
                  ELSE /\ new.howLong = old.howLong
                       /\ new.whenSpokeLast = old.whenSpokeLast]_vars

\* C23: when _addEvent adds a turn and the backward scan meets a turn of
\* another speaker longer than SHORT_SEQUENCE_MAX_LENGTH_MS before any turn
\* of the new turn's speaker, the new turn gets no flag and no earlier turn
\* changes.
C23_LongTurnBlocks ==
    [][Len(events') = Len(events) + 1 =>
        LET turnCount == Len(events')
            currentTurn == events'[turnCount]
            blockers ==
                { k \in 1..Len(events) :
                    /\ events[k].howLong > SHORT_SEQUENCE_MAX_LENGTH_MS
                    /\ \A j \in k..Len(events) :
                          events[j].who # currentTurn.who }
        IN  blockers # {}
               => /\ ~currentTurn.continuation
                  /\ ~currentTurn.interjection
                  /\ \A k \in 1..Len(events) : events'[k] = events[k]]_vars

\* A spoke for 20000 ms, B for 3100 ms and A resumed at once: A's first turn
\* is long enough for the gap, but B's turn is too long for an interjection
\* and nothing is flagged.
C23_Witness ==
    /\ Len(events) = 3
    /\ events[1].who = "A" /\ events[1].howLong = 20000
    /\ events[2].who = "B" /\ events[2].howLong = 3100
    /\ events[3].who = "A"
    /\ events[1].howLong > (events[3].when - events[1].whenSpokeLast)
                               * INTERJECTIONS_TO_SEQUENCE_MIN_RATIO
    /\ ~events[2].interjection
    /\ ~events[3].continuation

\* C24: in the finalized list, the turn before a turn with continuation =
\* true has interjection = true, and the nearest earlier turn without
\* interjection = true has the speaker of the continuation turn.
C24_ContinuationResumes ==
    \A k \in 1..Len(events) :
        events[k].continuation =>
            LET plain == { j \in 1..(k - 1) : ~events[j].interjection }
            IN  /\ k > 1
                /\ events[k - 1].interjection
                /\ plain # {}
                /\ events[CHOOSE j \in plain : \A other \in plain : other <= j].who
                      = events[k].who

\* C25: after every mergeLatestCC that completes, the turn at each index of
\* the buffer has the speaker of the line read at that index.
C25_BufferMirrorsSpeakers ==
    ccOutcome = "completed" =>
        \A i \in 1..Len(eventsBuffer) :
            /\ i <= Len(wellFormed(snapshot))
            /\ eventsBuffer[i].who = wellFormed(snapshot)[i].who

\* C26: in every mergeLatestCC, after the shrink and realign loops the
\* buffer is no longer than the lines read, so the merge loop runs.
C26_MergeAlwaysRuns ==
    [][ccRounds' = ccRounds + 1 =>
        LET newEvents == scrape(snapshot', now)
            aligned == realign(shrink([ events       |-> events,
                                        eventsBuffer |-> eventsBuffer ],
                                      newEvents),
                               newEvents)
        IN  /\ Len(newEvents) >= Len(aligned.eventsBuffer)
            /\ ccOutcome' = "completed" => Len(eventsBuffer') = Len(newEvents)]_vars

\* The second call read one line with three turns buffered, and the shrink
\* loop finalized two of them.
C26_Witness ==
    /\ ccRounds = 2
    /\ ccOutcome = "completed"
    /\ Len(wellFormed(snapshot)) = 1
    /\ Len(events) = 2
    /\ Len(eventsBuffer) = 1

\* C27: the summary logger's interval callback resets no participant who has
\* a run open, and no participant whose lastSpeakingEnd is the latest of all.
C27_TickSparesActiveSpeaker ==
    lastCall.op = "summaryLogger" =>
        \A i \in 1..Len(lastCall.pre) :
            LET p == lastCall.pre[i]
            IN  (\/ p.speakingStrikeStart # Null
                 \/ /\ p.lastSpeakingEnd # Null
                    /\ \A j \in 1..Len(lastCall.pre) :
                          ToNumber(lastCall.pre[j].lastSpeakingEnd)
                              <= p.lastSpeakingEnd)
                   => participants[i] = p

\* The compact form of a duration: hours if any, then minutes if any (two
\* digits after hours), then seconds (two digits after minutes, "<S>s"
\* alone), nothing for 0
CompactForm(ms) ==
    LET hours   == ms \div (3600 * 1000)
        minutes == (ms \div (60 * 1000)) % 60
        seconds == (ms \div 1000) % 60
    IN  IF hours > 0
        THEN NumberToString(hours) \o <<":">> \o TwoDigits(minutes)
                \o <<":">> \o TwoDigits(seconds)
        ELSE IF minutes > 0
        THEN NumberToString(minutes) \o <<":">> \o TwoDigits(seconds)
        ELSE IF ms > 0
        THEN NumberToString(seconds) \o <<"s">>
        ELSE <<>>

\* C29: for every ms >= 0 formatTime returns the compact form: "<S>s" with
\* S = floor(ms / 1000) for every 0 < ms < 60000 (0 < ms < 1000 included),
\* minutes and seconds on two digits exactly after a higher unit, and the
\* empty string for ms = 0 only.
C29_CompactForm ==
    (fnCall.fn = "formatTime" /\ fnCall.returned) =>
        /\ fnCall.result = CompactForm(fnCall.ms)
        /\ (fnCall.result = <<>> <=> fnCall.ms = 0)

\* C28: the participants list never holds two trackers of one identifier
\* and no handler removes or replaces a tracker; the roster handlers keep
\* every tracker's total speaking time; onParticipantNodeRemoved leaves the
\* participant's tracker in the list with its open run added to the total;
\* onParticipantNodeAdded for an identifier that has a tracker adds none.
C28_OneTrackerPerIdentifier ==
    /\ \A i, j \in Idx :
          participants[i].initialId = participants[j].initialId => i = j
    /\ Len(lastCall.pre) <= Len(participants)
    /\ \A i \in 1..Len(lastCall.pre) :
          participants[i].initialId = lastCall.pre[i].initialId
    /\ lastCall.op \in {"nodeAdded", "nodeRemoved", "loadBoxes"} =>
          \A i \in 1..Len(lastCall.pre) :
              getTotalSpeakingTime(participants[i], lastCall.at)
                  = getTotalSpeakingTime(lastCall.pre[i], lastCall.at)
    /\ (lastCall.op = "nodeRemoved" /\ lastCall.idx # 0) =>
          /\ Post.speakingStrikeStart = Null
          /\ Post.totalSpeakingTime = getTotalSpeakingTime(Pre, lastCall.at)
    /\ (lastCall.op = "nodeAdded" /\ lastCall.idx # 0) =>
          participants = lastCall.pre

\* A participant's box was removed while they were speaking, which
\* committed the run, and the box came back: the same tracker, with its
\* total, is observed again.
C28_Witness ==
    /\ lastCall.op = "nodeAdded"
    /\ lastCall.idx = 1
    /\ Len(participants) = 2
    /\ microphoneObserver[1] = "connected"
    /\ participants[1].totalSpeakingTime > 0
    /\ participants[1].lastSpeakingEnd = now
    /\ lastSignal[1] = "true"

\* The positions of a text where a non-empty line starts, the turns of a
\* list with neither flag, and the rank of a member of a set of numbers
LineStarts(text) ==
    { i \in 1..Len(text) :
        text[i] # NewLine /\ (i = 1 \/ text[i - 1] = NewLine) }
PlainTurns(log) ==
    { k \in 1..Len(log) : ~log[k].interjection /\ ~log[k].continuation }
Rank(n, numbers) == Cardinality({ m \in numbers : m <= n })

\* C30: a rendering of the finalized list has one line for every turn that
\* is neither an interjection nor a continuation, in the list's order, each
\* starting with **speaker**: text (duration); interjection and continuation
\* turns add no line, and every interjection turn has its marker; a
\* rendering of the same list by the same renderer right after gives the
\* same text.
C30_TranscriptRendering ==
    /\ [](fnCall.fn \in {"toMarkdown", "inPageTranscript"} =>
            /\ Cardinality(LineStarts(fnCall.result))
                  = Cardinality(PlainTurns(fnCall.log))
            /\ Cardinality({ i \in 1..Len(fnCall.result) :
                                fnCall.result[i] = InterjectionMarker })
                  = Cardinality({ k \in 1..Len(fnCall.log) :
                                    fnCall.log[k].interjection })
            /\ \A i \in LineStarts(fnCall.result), k \in PlainTurns(fnCall.log) :
                  Rank(i, LineStarts(fnCall.result))
                        = Rank(k, PlainTurns(fnCall.log))
                     => SubSeq(fnCall.result, i,
                               i + Len(turnLine(fnCall.log[k])) - 1)
                          = turnLine(fnCall.log[k]))
    /\ [][(fnCall.fn # "none" /\ fnCall'.fn = fnCall.fn)
             => fnCall'.result = fnCall.result]_vars

\* C31: after any interleaving of mic signals and runs of the summary
\* logger's interval callback, every participant's totalSpeakingTime is the
\* sum, over the participant's completed speaking runs, of the time of the
\* false signal minus the time of the true signal that opened the run.
C31_NoSpeakingTimeLost ==
    \A i \in Idx :
        participants[i].totalSpeakingTime
            = runs[participants[i].initialId].completed

\* C32: no turn of the finalized list has interjection = true and
\* continuation = true at once.
C32_FlagsExclusive ==
    \A k \in 1..Len(events) :
        ~(events[k].interjection /\ events[k].continuation)

\* C33: every buffered or finalized turn has howLong <= t - when, t being
\* the time of the latest mergeLatestCC that updated the turn; t is never
\* later than the clock, so howLong <= now - when.
C33_DurationWithinSpan ==
    /\ \A i \in 1..Len(eventsBuffer) :
          eventsBuffer[i].howLong <= now - eventsBuffer[i].when
    /\ \A k \in 1..Len(events) :
          events[k].howLong <= now - events[k].when

=============================================================================
